---- MODULE Spec2Model ----
(***************************************************************************)
(* yek: priority scoring, ordering, chunk packing and the chunk sink        *)
(* (src/src/lib.rs).                                                       *)
(*                                                                         *)
(* Text is a sequence of bytes, each byte a one-element string.  A path is *)
(* text too.  A chunk payload is kept as the sequence of its records       *)
(* (`chunk <hdr>` line, `>>>> <path>[:part <n>]` line, body); the byte     *)
(* range a record was cut from is kept next to it in lo/hi.  The sink is   *)
(* the standard output (the records written, in order) or the directory    *)
(* out_dir (file name |-> content); a write to it may fail.                *)
(***************************************************************************)
EXTENDS Integers, Sequences, FiniteSets, TLC

\* ------------------------------------------------------------------ bounds
MaxFiles == 3      \* files the walk discovers
MaxRules == 2      \* length of the rule list
MaxTimed == 2      \* paths known to the version history
MaxTime == 2       \* commit timestamps are 1..MaxTime
MaxCap == 2        \* small capacities are 0..MaxCap
PackCap2 == 38     \* a capacity that holds two small records
LongTokens == 40   \* tokens of the long content: more than PackCap2
MaxChunks == 12    \* the split loop is followed up to this chunk index

\* ------------------------------------------------------------------- text
Min(a, b) == IF a < b THEN a ELSE b

\* U+00E9 is the two bytes C3 A9, U+FFFD the three bytes EF BF BD.
LeadByte == "C3"
ContByte == "A9"
Replacement == <<"EF", "BF", "BD">>

IsWhitespace(c) == c \in {" ", "\n"}

\* str::split_whitespace: the maximal runs of non-whitespace, in order.  The
\* tokens of a text are those of its two halves, the last of the first half
\* and the first of the second being one token when no whitespace parts them.
RECURSIVE split_whitespace(_)
split_whitespace(s) ==
    IF s = <<>> THEN <<>>
    ELSE IF Len(s) = 1 THEN IF IsWhitespace(s[1]) THEN <<>> ELSE <<s>>
    ELSE LET m == Len(s) \div 2
             l == split_whitespace(SubSeq(s, 1, m))
             r == split_whitespace(SubSeq(s, m + 1, Len(s)))
         IN IF IsWhitespace(s[m]) \/ IsWhitespace(s[m + 1])
            THEN l \o r
            ELSE SubSeq(l, 1, Len(l) - 1) \o <<l[Len(l)] \o r[1]>> \o Tail(r)

RECURSIVE join(_, _)
join(toks, sep) ==
    IF toks = <<>> THEN <<>>
    ELSE IF Len(toks) = 1 THEN toks[1]
    ELSE toks[1] \o sep \o join(Tail(toks), sep)

\* String::from_utf8_lossy: every byte that is not part of a well-formed
\* character is replaced by U+FFFD.
RECURSIVE from_utf8_lossy(_)
from_utf8_lossy(b) ==
    IF b = <<>> THEN <<>>
    ELSE IF b[1] = LeadByte
         THEN IF Len(b) >= 2 /\ b[2] = ContByte
              THEN <<b[1], b[2]>> \o from_utf8_lossy(SubSeq(b, 3, Len(b)))
              ELSE Replacement \o from_utf8_lossy(Tail(b))
         ELSE IF b[1] = ContByte
              THEN Replacement \o from_utf8_lossy(Tail(b))
              ELSE <<b[1]>> \o from_utf8_lossy(Tail(b))

\* str::contains with a string pattern: literal substring containment.
Contains(path, pat) ==
    \E i \in 0..(Len(path) - Len(pat)) : SubSeq(path, i + 1, i + Len(pat)) = pat

\* ----------------------------------------------------------------- inputs
P_foo == <<"f", "o", "o", ".", "t", "x", "t">>
P_bar == <<"b", "a", "r", ".", "t", "x", "t">>
P_low == <<"l", "o", "w", "/", "a", ".", "t", "x", "t">>
P_high == <<"h", "i", "g", "h", "/", "b", ".", "t", "x", "t">>
Paths == <<P_foo, P_bar, P_low, P_high>>

\* The files and rules of the test priority_rules_are_applied.
P_very ==
    <<"v", "e", "r", "y", "_", "i", "m", "p", "o", "r", "t", "a",
      "n", "t", "/", "o", "n", "e", ".", "t", "x", "t">>
P_less ==
    <<"l", "e", "s", "s", "_", "i", "m", "p", "o", "r", "t", "a",
      "n", "t", "/", "t", "w", "o", ".", "t", "x", "t">>
PathSet == {Paths[i] : i \in 1..Len(Paths)}

R_foo == [pattern |-> <<"f", "o", "o">>, score |-> 5]
R_o == [pattern |-> <<"o">>, score |-> 3]
R_low == [pattern |-> <<"^", "l", "o", "w", "/">>, score |-> 10]
R_high == [pattern |-> <<"^", "h", "i", "g", "h", "/">>, score |-> 999]
Rules == {R_foo, R_o, R_low, R_high}
R_very ==
    [pattern |-> <<"^", "v", "e", "r", "y", "_", "i", "m", "p", "o",
                   "r", "t", "a", "n", "t", "/">>,
     score |-> 100]
R_less ==
    [pattern |-> <<"^", "l", "e", "s", "s", "_", "i", "m", "p", "o",
                   "r", "t", "a", "n", "t", "/">>,
     score |-> 10]

\* File contents: empty; one token; three tokens, the first a two-byte
\* character, separated by a newline and by two blanks; LongTokens tokens
\* separated by single blanks.
C_empty == <<>>
C_one == <<"a">>
C_three == <<LeadByte, ContByte, "\n", "b", " ", " ", "c">>
C_long == [i \in 1..(2 * LongTokens - 1) |-> IF i % 2 = 1 THEN "a" ELSE " "]
Contents == {C_empty, C_one, C_three, C_long}

\* One token of three bytes: as many bytes as C_three has tokens.
C_bytes == <<LeadByte, ContByte, "b">>

\* config.max_size: Some(n), or None for DEFAULT_CHUNK_SIZE.
Some(n) == [some |-> TRUE, val |-> n]
None == [some |-> FALSE, val |-> 0]

\* get_recent_commit_times found no version history.
NoTimes == [some |-> FALSE, val |-> <<>>]

Capacities == {Some(n) : n \in 0..MaxCap} \cup {Some(PackCap2), None}

\* The sequences over S of length n without a repeated element.
RECURSIVE InjSeqs(_, _)
InjSeqs(S, n) ==
    IF n = 0 THEN {<<>>}
    ELSE {Append(s, x) : s \in InjSeqs(S, n - 1), x \in S} \
         {s \in [1..n -> S] : \E i, j \in 1..n : i < j /\ s[i] = s[j]}

InjSeqsUpTo(S, n) == UNION {InjSeqs(S, k) : k \in 0..n}

\* A packing run: the first k paths with any contents, the rule `foo`, no
\* version history, any capacity, either mode.
PackInputs ==
    {[files |-> [i \in 1..Len(cs) |-> [path |-> Paths[i], content |-> cs[i]]],
      rules |-> <<R_foo>>, times |-> NoTimes, max_size |-> cap, token_mode |-> tm,
      stream |-> FALSE] :
        cs \in UNION {[1..k -> Contents] : k \in 0..Min(MaxFiles, Len(Paths))},
        cap \in Capacities,
        tm \in BOOLEAN}

\* An ordering run: the files in any discovery order, high/b.txt of size
\* three in the mode of the run (three tokens, or three bytes) and the others
\* of size one, any rule list, no version history, a capacity between the two
\* sizes.
OrdInputs ==
    {[files |-> [i \in 1..Len(ps) |->
                    [path |-> ps[i],
                     content |-> IF ps[i] # P_high THEN C_one
                                 ELSE IF tm THEN C_three ELSE C_bytes]],
      rules |-> rs, times |-> NoTimes, max_size |-> Some(MaxCap), token_mode |-> tm,
      stream |-> TRUE] :
        ps \in InjSeqsUpTo(PathSet, MaxFiles),
        rs \in InjSeqsUpTo(Rules, MaxRules),
        tm \in BOOLEAN}

\* The commit-time maps of the first k <= MaxTimed paths, each as the
\* sequence of its (path, time) pairs in the iteration order of the HashMap,
\* which is arbitrary.  get_recent_commit_times returns None for an empty map.
TimeMaps ==
    {[some |-> TRUE,
      val |-> [i \in 1..Len(ps) |-> [path |-> ps[i], time |-> ts[i]]]] :
        ps \in UNION {InjSeqs({Paths[i] : i \in 1..k}, k) :
                         k \in 1..Min(MaxTimed, Len(Paths))},
        ts \in [1..MaxTimed -> 1..MaxTime]}

\* A run with version history: foo.txt and bar.txt in any discovery order
\* with one token each, no rule or the rule `foo`, byte mode.
TimeInputs ==
    {[files |-> [i \in 1..Len(ps) |-> [path |-> ps[i], content |-> C_one]],
      rules |-> rs, times |-> tm, max_size |-> Some(PackCap2),
      token_mode |-> FALSE, stream |-> TRUE] :
        ps \in InjSeqsUpTo({P_foo, P_bar}, MaxFiles),
        rs \in {<<>>, <<R_foo>>},
        tm \in TimeMaps}

\* A run of the test priority_rules_are_applied: its two files with one token
\* each, in any discovery order, its two rules, no version history, the
\* default capacity, byte mode, streamed.
PrioInputs ==
    {[files |-> [i \in 1..Len(ps) |-> [path |-> ps[i], content |-> C_one]],
      rules |-> <<R_very, R_less>>, times |-> NoTimes, max_size |-> None,
      token_mode |-> FALSE, stream |-> TRUE] :
        ps \in InjSeqsUpTo({P_very, P_less}, MaxFiles)}

Inputs == PackInputs \cup OrdInputs \cup TimeInputs \cup PrioInputs

\* ------------------------------------------------------------------ state
VARIABLES
    files,          \* the text files in the order the walk discovers them
    priority_rules, \* config.priority_rules
    max_size,       \* config.max_size
    token_mode,     \* config.token_mode
    is_stream,      \* config.stream
    git_times,      \* the result of get_recent_commit_times
    entries,        \* serialize_repo: (rel_path, content, priority)
    pc,             \* "start", "loop", "split", "done" or "failed"
    idx,            \* the entry the for loop of write_chunks is at (from 1)
    chunk_index,
    buffer,         \* the records pushed to the buffer string
    used_size,
    start,
    part,
    emitted,        \* the calls of write_single_chunk that returned Ok, in order
    stdout,         \* the records written to the standard output
    out_files       \* the files under out_dir: file name |-> content

vars == <<files, priority_rules, max_size, token_mode, is_stream, git_times,
          entries, pc, idx, chunk_index, buffer, used_size, start, part,
          emitted, stdout, out_files>>

DEFAULT_CHUNK_SIZE == 10 * 1024 * 1024

\* ------------------------------------------------------------ priorities
RECURSIVE IterMax(_)
IterMax(xs) ==
    IF Len(xs) = 1 THEN xs[1]
    ELSE LET m == IterMax(SubSeq(xs, 1, Len(xs) - 1))
         IN IF xs[Len(xs)] >= m THEN xs[Len(xs)] ELSE m

\* get_file_priority taking the first matching rule instead of the best.
FirstScore(path, rules) ==
    LET matching == SelectSeq(rules, LAMBDA r : Contains(path, r.pattern))
    IN IF matching = <<>> THEN 0 ELSE matching[1].score

\* rules.iter().filter(..contains..).map(score).max().unwrap_or(0)
get_file_priority(path, rules) ==
    LET matching == SelectSeq(rules, LAMBDA r : Contains(path, r.pattern))
    IN IF matching = <<>> THEN 0
       ELSE IterMax([i \in 1..Len(matching) |-> matching[i].score])

\* sort_by_key with the order reversed.
SortDescending(s, keys) ==
    LET n == Len(s)
        pos(i) == Cardinality({j \in 1..n : \/ keys[j] > keys[i]
                                            \/ keys[j] = keys[i] /\ j < i}) + 1
    IN [p \in 1..n |-> s[CHOOSE i \in 1..n : pos(i) = p]]

\* slice::sort_by_key is stable: equal keys keep their order.  keys[i] is
\* the key of s[i].
sort_by_key(s, keys) ==
    LET n == Len(s)
        pos(i) == Cardinality({j \in 1..n : \/ keys[j] < keys[i]
                                            \/ keys[j] = keys[i] /\ j < i}) + 1
    IN [p \in 1..n |-> s[CHOOSE i \in 1..n : pos(i) = p]]

\* f64::round of a non-negative quotient a / b: halves round up.
Round(a, b) == (2 * a + b) \div (2 * b)

\* compute_recentness_boost scaling the timestamp itself instead of its rank.
ScaleByTimestamp(commit_times, max_boost) ==
    LET keys == {commit_times[i].path : i \in 1..Len(commit_times)}
        time(p) == commit_times[CHOOSE i \in 1..Len(commit_times) :
                                   commit_times[i].path = p].time
        newest == IterMax([i \in 1..Len(commit_times) |-> commit_times[i].time])
    IN IF Len(commit_times) < 2
       THEN [p \in keys |-> 0]
       ELSE [p \in keys |-> Round(time(p) * max_boost, newest)]

\* commit_times is the map in iteration order; the result maps path to boost.
compute_recentness_boost(commit_times, max_boost) ==
    LET sorted == sort_by_key(commit_times,
                              [i \in 1..Len(commit_times) |-> commit_times[i].time])
        last_index == IF Len(sorted) = 0 THEN 0 ELSE Len(sorted) - 1
        keys == {commit_times[i].path : i \in 1..Len(commit_times)}
        rank(p) == (CHOOSE i \in 1..Len(sorted) : sorted[i].path = p) - 1
    IN IF last_index < 1
       THEN [p \in keys |-> 0]
       ELSE [p \in keys |-> Round(rank(p) * max_boost, last_index)]

\* serialize_repo, "Calculate priority" for one discovered file; times is the
\* result of get_recent_commit_times.
PriorityWith(path, times) ==
    LET static == get_file_priority(path, priority_rules)
    IN IF times.some
          /\ \E i \in 1..Len(times.val) : times.val[i].path = path
       THEN static + compute_recentness_boost(times.val, 50)[path]
       ELSE static

FilePriority(path) == PriorityWith(path, git_times)

Init ==
    /\ \E inp \in Inputs :
          /\ files = inp.files
          /\ priority_rules = inp.rules
          /\ git_times = inp.times
          /\ max_size = inp.max_size
          /\ token_mode = inp.token_mode
          /\ is_stream = inp.stream
    /\ entries = <<>>
    /\ pc = "start"
    /\ idx = 1
    /\ chunk_index = 0
    /\ buffer = <<>>
    /\ used_size = 0
    /\ start = 0
    /\ part = 0
    /\ emitted = <<>>
    /\ stdout = <<>>
    /\ out_files = [n \in {} |-> <<>>]

\* serialize_repo up to the call of write_chunks, and the first lines of
\* write_chunks.
SerializeRepo ==
    /\ pc = "start"
    /\ LET scored == [i \in 1..Len(files) |->
                        [path |-> files[i].path, content |-> files[i].content,
                         priority |-> FilePriority(files[i].path)]]
       IN entries' = sort_by_key(scored, [i \in 1..Len(scored) |-> scored[i].priority])
    /\ pc' = "loop"
    /\ idx' = 1
    /\ chunk_index' = 0
    /\ buffer' = <<>>
    /\ used_size' = 0
    /\ UNCHANGED <<files, priority_rules, max_size, token_mode, is_stream,
                   git_times, start, part, emitted, stdout, out_files>>

\* ------------------------------------------------------------ write_chunks
chunk_size == IF max_size.some THEN max_size.val ELSE DEFAULT_CHUNK_SIZE

\* `chunk <hdr>\n>>>> <path>\n<body>\n`, or with `:part <part>` when split;
\* lo..hi is the range of the file (tokens or bytes) the body was cut from.
Record(hdr, path, split, p, body, lo, hi) ==
    [hdr |-> hdr, path |-> path, split |-> split, part |-> p, body |-> body,
     lo |-> lo, hi |-> hi]

\* str::trim: the text without its leading and trailing whitespace.
RECURSIVE trim(_)
trim(s) ==
    IF s = <<>> THEN <<>>
    ELSE IF IsWhitespace(s[1]) THEN trim(Tail(s))
    ELSE IF IsWhitespace(s[Len(s)]) THEN trim(SubSeq(s, 1, Len(s) - 1))
    ELSE s

\* `.split(':').next()`: the text up to its first colon.
RECURSIVE UpToColon(_)
UpToColon(s) ==
    IF s = <<>> \/ s[1] = ":" THEN <<>> ELSE <<s[1]>> \o UpToColon(Tail(s))

\* The text of the line `>>>> <path>` or `>>>> <path>:part <n>` of a record,
\* after `>>>>`.
HeaderText(r) ==
    <<" ">> \o r.path
        \o (IF r.split THEN <<":", "p", "a", "r", "t", " ", ToString(r.part)>> ELSE <<>>)

\* write_single_chunk, the file name: `chunk-<index>`, or what the first
\* line starting with `>>>>` names.  The first such line of a content is the
\* header of its first record.
file_name(content, index) ==
    IF content = <<>> THEN <<"chunk-", ToString(index)>>
    ELSE UpToColon(trim(HeaderText(content[1])))

\* `out_dir.join(format!("{}.txt", file_name))`
FilePath(content, index) == file_name(content, index) \o <<".txt">>

\* fs::write: the file is created, or truncated, and holds data.
fs_write(dir, name, data) ==
    [n \in DOMAIN dir \cup {name} |-> IF n = name THEN data ELSE dir[n]]

\* write_single_chunk returning Ok.
write_single_chunk(content, index) ==
    /\ emitted' = Append(emitted, [index |-> index, payload |-> content])
    /\ IF is_stream
       THEN /\ stdout' = stdout \o content
            /\ out_files' = out_files
       ELSE /\ out_files' = fs_write(out_files, FilePath(content, index), content)
            /\ stdout' = stdout

\* The split test made non-strict.
ExceedsOrFills(size, cs) == size >= cs

\* `file_tokens > chunk_size`, `file_len > chunk_size`
ExceedsChunk(size, cs) == size > cs

\* A slice one unit too long.
SliceEndLong(st, cs, n) == Min(st + cs + 1, n)

\* `(start + chunk_size).min(file_tokens)`, `(start + chunk_size).min(file_len)`
SliceEnd(st, cs, n) == Min(st + cs, n)

\* The size-limit flush left out.
NeverFlush(used, add, cs, buf) == FALSE

\* `used_size + add_size > chunk_size && !buffer.is_empty()`
MustFlush(used, add, cs, buf) == used + add > cs /\ buf # <<>>

\* The increment of chunk_index left out.
SameIndex(i) == i

\* `chunk_index += 1`
NextChunkIndex(i) == i + 1

\* The increment of part left out.
PartStuck(p) == p

\* `part += 1`
NextPart(p) == p + 1

InLoop == pc = "loop" /\ idx <= Len(entries)

rel_path == entries[idx].path
content == entries[idx].content
tokens == split_whitespace(content)
file_tokens == Len(tokens)
file_len == Len(content)
overhead == 10 + Len(rel_path)

\* "Flush current buffer first", then `start = 0; part = 0`.
EnterSplit ==
    /\ IF buffer # <<>>
       THEN /\ write_single_chunk(buffer, chunk_index)
            /\ buffer' = <<>>
            /\ used_size' = 0
            /\ chunk_index' = NextChunkIndex(chunk_index)
       ELSE UNCHANGED <<emitted, stdout, out_files, buffer, used_size, chunk_index>>
    /\ start' = 0
    /\ part' = 0
    /\ pc' = "split"
    /\ UNCHANGED <<files, priority_rules, max_size, token_mode, is_stream,
                   git_times, entries, idx>>

\* One round of `while start < file_tokens` / `while start < file_len`.
SplitRound(body, end) ==
    /\ write_single_chunk(
           <<Record(chunk_index, rel_path, TRUE, part, body, start, end)>>,
           chunk_index)
    /\ chunk_index' = NextChunkIndex(chunk_index)
    /\ part' = NextPart(part)
    /\ start' = end
    /\ UNCHANGED <<files, priority_rules, max_size, token_mode, is_stream,
                   git_times, entries, pc, idx, buffer, used_size>>

\* The while loop ends: the for loop takes the next entry.
LeaveSplit ==
    /\ pc' = "loop"
    /\ idx' = idx + 1
    /\ UNCHANGED <<files, priority_rules, max_size, token_mode, is_stream,
                   git_times, entries, chunk_index, buffer, used_size, start,
                   part, emitted, stdout, out_files>>

\* "Small enough to fit in one chunk".
AddToBuffer(size) ==
    LET add_size == size + overhead
        flush == MustFlush(used_size, add_size, chunk_size, buffer)
        index == IF flush THEN NextChunkIndex(chunk_index) ELSE chunk_index
    IN /\ IF flush THEN write_single_chunk(buffer, chunk_index)
          ELSE UNCHANGED <<emitted, stdout, out_files>>
       /\ chunk_index' = index
       /\ buffer' = Append(IF flush THEN <<>> ELSE buffer,
                           Record(index, rel_path, FALSE, 0, content, 0, size))
       /\ used_size' = (IF flush THEN 0 ELSE used_size) + add_size
       /\ idx' = idx + 1
       /\ UNCHANGED <<files, priority_rules, max_size, token_mode, is_stream,
                      git_times, entries, pc, start, part>>

\* The token branch splitting a file that fills the capacity exactly, which
\* the byte branch does not.
TokenSplitsExactFit ==
    /\ InLoop /\ token_mode
    /\ ExceedsOrFills(file_tokens, chunk_size)
    /\ EnterSplit

TokenLargeFile ==
    /\ InLoop /\ token_mode
    /\ ExceedsChunk(file_tokens, chunk_size)
    /\ EnterSplit

TokenSplitPart ==
    /\ pc = "split" /\ token_mode
    /\ start < file_tokens
    /\ chunk_index < MaxChunks
    /\ LET end == SliceEnd(start, chunk_size, file_tokens)
           chunk_tokens == SubSeq(tokens, start + 1, end)
       IN SplitRound(join(chunk_tokens, <<" ">>), end)

TokenSplitDone ==
    /\ pc = "split" /\ token_mode
    /\ ~(start < file_tokens)
    /\ LeaveSplit

TokenAddFile ==
    /\ InLoop /\ token_mode
    /\ ~ExceedsChunk(file_tokens, chunk_size)
    /\ AddToBuffer(file_tokens)

ByteLargeFile ==
    /\ InLoop /\ ~token_mode
    /\ ExceedsChunk(file_len, chunk_size)
    /\ EnterSplit

ByteSplitPart ==
    /\ pc = "split" /\ ~token_mode
    /\ start < file_len
    /\ chunk_index < MaxChunks
    /\ LET end == SliceEnd(start, chunk_size, file_len)
           chunk_data == SubSeq(content, start + 1, end)
       IN SplitRound(from_utf8_lossy(chunk_data), end)

ByteSplitDone ==
    /\ pc = "split" /\ ~token_mode
    /\ ~(start < file_len)
    /\ LeaveSplit

ByteAddFile ==
    /\ InLoop /\ ~token_mode
    /\ ~ExceedsChunk(file_len, chunk_size)
    /\ AddToBuffer(file_len)

\* "Flush final chunk if not empty", and the return.
FinalFlush ==
    /\ pc = "loop" /\ idx > Len(entries)
    /\ IF buffer # <<>> THEN write_single_chunk(buffer, chunk_index)
       ELSE UNCHANGED <<emitted, stdout, out_files>>
    /\ pc' = "done"
    /\ UNCHANGED <<files, priority_rules, max_size, token_mode, is_stream,
                   git_times, entries, idx, chunk_index, buffer, used_size,
                   start, part>>

\* The content of the write_single_chunk call the next step makes, if it
\* makes one: the buffer before a large file, before a file that does not
\* fit or at the end; the next part of a large file.
Pending ==
    LET size == IF token_mode THEN file_tokens ELSE file_len
        end == SliceEnd(start, chunk_size, size)
        body == IF token_mode
                THEN join(SubSeq(tokens, start + 1, end), <<" ">>)
                ELSE from_utf8_lossy(SubSeq(content, start + 1, end))
    IN IF InLoop
       THEN IF ExceedsChunk(size, chunk_size)
            THEN IF buffer # <<>> THEN {buffer} ELSE {}
            ELSE IF MustFlush(used_size, size + overhead, chunk_size, buffer)
                 THEN {buffer} ELSE {}
       ELSE IF pc = "loop"
            THEN IF buffer # <<>> THEN {buffer} ELSE {}
            ELSE IF pc = "split" /\ start < size /\ chunk_index < MaxChunks
                 THEN {<<Record(chunk_index, rel_path, TRUE, part, body, start, end)>>}
                 ELSE {}

\* write_single_chunk returns an error and `?` returns it from write_chunks
\* and from serialize_repo.  The write to the stream, or fs::write after it
\* created or truncated the file, may have written a part of the content;
\* create_dir_all or the creation of the file may have failed before.
SinkFails ==
    /\ \E c \in Pending :
          IF is_stream
          THEN /\ \E n \in 0..(Len(c) - 1) : stdout' = stdout \o SubSeq(c, 1, n)
               /\ out_files' = out_files
          ELSE /\ \/ out_files' = out_files
                  \/ \E n \in 0..(Len(c) - 1) :
                        out_files' = fs_write(out_files, FilePath(c, chunk_index),
                                              SubSeq(c, 1, n))
               /\ stdout' = stdout
    /\ pc' = "failed"
    /\ UNCHANGED <<files, priority_rules, max_size, token_mode, is_stream,
                   git_times, entries, idx, chunk_index, buffer, used_size,
                   start, part, emitted>>

Next ==
    \/ SerializeRepo
    \/ TokenLargeFile
    \/ TokenSplitPart
    \/ TokenSplitDone
    \/ TokenAddFile
    \/ ByteLargeFile
    \/ ByteSplitPart
    \/ ByteSplitDone
    \/ ByteAddFile
    \/ FinalFlush
    \/ SinkFails

Spec == Init /\ [][Next]_vars

\* ------------------------------------------------------------- properties
\* Every record handed to the sink, in emission order, with the position of
\* its chunk in the emission (chunk), the index the sink was given (index)
\* and its place in the payload (pos).
RECURSIVE RecordsFrom(_)
RecordsFrom(k) ==
    IF k > Len(emitted) THEN <<>>
    ELSE [p \in 1..Len(emitted[k].payload) |->
             [chunk |-> k, index |-> emitted[k].index, pos |-> p,
              rec |-> emitted[k].payload[p]]] \o RecordsFrom(k + 1)

AllRecords == RecordsFrom(1)

RecordsOf(path) == SelectSeq(AllRecords, LAMBDA x : x.rec.path = path)

RECURSIVE Concat(_)
Concat(ss) == IF ss = <<>> THEN <<>> ELSE ss[1] \o Concat(Tail(ss))

FilePaths == {files[i].path : i \in 1..Len(files)}

ContentOf(path) == files[CHOOSE i \in 1..Len(files) : files[i].path = path].content

\* The size of a file in the active mode.
SizeOf(path) ==
    IF token_mode THEN Len(split_whitespace(ContentOf(path)))
    ELSE Len(ContentOf(path))

\* x is emitted before y: in an earlier chunk, or earlier in the same chunk.
EmittedBefore(x, y) ==
    \/ x.chunk < y.chunk /\ x.index < y.index
    \/ x.chunk = y.chunk /\ x.index = y.index /\ x.pos < y.pos

\* C1: whenever priority(A) < priority(B), priority being the rule score plus
\* the recency boost, every record of A (whole or part) is emitted before
\* every record of B: in a chunk of smaller index, or earlier in the same
\* chunk.  With the single rule foo:5 and no version history, every record of
\* a file that matches no rule precedes every record of a file matching foo.
C1_AscendingPriority ==
    LET R == AllRecords
        prio == [A \in FilePaths |-> FilePriority(A)]
    IN /\ \A i \in 1..Len(R), j \in 1..Len(R) :
             prio[R[i].rec.path] < prio[R[j].rec.path] => EmittedBefore(R[i], R[j])
       /\ (priority_rules = <<R_foo>> /\ ~git_times.some) =>
             \A i \in 1..Len(R), j \in 1..Len(R) :
                (/\ ~Contains(R[i].rec.path, R_foo.pattern)
                 /\ Contains(R[j].rec.path, R_foo.pattern))
                   => EmittedBefore(R[i], R[j])

\* A finished run in which the walk found the higher-priority file first, the
\* two have the same rule score and differ by the recency boost alone.
C1_Witness ==
    /\ pc = "done"
    /\ git_times.some
    /\ \E i \in 1..Len(files), j \in 1..Len(files) :
          /\ i < j
          /\ FilePriority(files[i].path) > FilePriority(files[j].path)
          /\ get_file_priority(files[i].path, priority_rules)
                = get_file_priority(files[j].path, priority_rules)
          /\ RecordsOf(files[i].path) # <<>>
          /\ RecordsOf(files[j].path) # <<>>

\* The bodies of the records of a file, in emission order.
BodiesOf(path) ==
    LET rs == RecordsOf(path) IN [i \in 1..Len(rs) |-> rs[i].rec.body]

\* The records of a file are one whole record, or the parts 0, 1, 2, ... in
\* increasing order.
WholeOrPartsInOrder(path) ==
    LET rs == RecordsOf(path)
    IN /\ Len(rs) >= 1
       /\ \/ Len(rs) = 1 /\ ~rs[1].rec.split
          \/ \A i \in 1..Len(rs) : rs[i].rec.split /\ rs[i].rec.part = i - 1

\* C2: after a run, in either mode, the bodies of the records of each input
\* file (headers stripped, parts concatenated in part order) are the file's
\* content, once and unchanged.
C2_RoundTrip ==
    pc = "done" =>
       \A f \in FilePaths :
          /\ WholeOrPartsInOrder(f)
          /\ Concat(BodiesOf(f)) = ContentOf(f)

\* The measured size of a chunk: the sum over its records of the size, in
\* the active mode, of the content or slice of content the record holds.
RECURSIVE MeasuredSize(_)
MeasuredSize(payload) ==
    IF payload = <<>> THEN 0
    ELSE (payload[1].hi - payload[1].lo) + MeasuredSize(Tail(payload))

\* The range lo..hi of a record is the range its body holds: in token mode
\* the body has hi - lo tokens; in byte mode a whole record's body has
\* hi - lo bytes.
RangeIsBody(r) ==
    IF token_mode THEN Len(split_whitespace(r.body)) = r.hi - r.lo
    ELSE r.split \/ Len(r.body) = r.hi - r.lo

C4_SequentialIndices ==
    \A k \in 1..Len(emitted) :
       /\ emitted[k].index = k - 1
       /\ \A p \in 1..Len(emitted[k].payload) : emitted[k].payload[p].hdr = k - 1

\* A finished run that emitted a flushed buffer, then parts, then the final
\* buffer.
C4_Witness ==
    /\ pc = "done"
    /\ \E k \in 2..(Len(emitted) - 1) :
          /\ ~emitted[k - 1].payload[1].split
          /\ emitted[k].payload[1].split
          /\ ~emitted[Len(emitted)].payload[1].split

\* The entries write_chunks has finished: those before the one it is at.
Processed == {entries[i].path : i \in 1..Min(idx - 1, Len(entries))}

\* The place of path in the order write_chunks takes the entries.
EntryIndex(path) == CHOOSE i \in 1..Len(entries) : entries[i].path = path

\* What C5 says of every state.
C5_Parts ==
    LET R == AllRecords
    IN /\ \A k \in 1..Len(emitted) :
             LET r == emitted[k].payload[1]
             IN r.split =>
                   /\ Len(emitted[k].payload) = 1
                   /\ SizeOf(r.path) > chunk_size
                   /\ IF r.part = 0
                      THEN /\ r.lo = 0
                           /\ \A j \in 1..(EntryIndex(r.path) - 1) :
                                 \E i \in 1..Len(R) :
                                    /\ R[i].rec.path = entries[j].path
                                    /\ R[i].chunk < k
                           /\ k > 1 => emitted[k - 1].payload[1].path # r.path
                      ELSE /\ k > 1
                           /\ emitted[k - 1].payload[1].path = r.path
                           /\ emitted[k - 1].payload[1].split
                           /\ emitted[k - 1].payload[1].part = r.part - 1
                           /\ emitted[k - 1].payload[1].hi = r.lo
                           /\ emitted[k - 1].index + 1 = emitted[k].index
       /\ \A f \in Processed :
             SizeOf(f) > chunk_size =>
                LET rs == RecordsOf(f)
                IN /\ rs # <<>>
                   /\ \A i \in 1..Len(rs) : rs[i].rec.split
                   /\ rs[Len(rs)].rec.hi = SizeOf(f)
       /\ pc = "split" => buffer = <<>> /\ used_size = 0

\* What C5 says of every step: meeting an oversized entry with a non-empty
\* buffer hands exactly that buffer to the sink, as one chunk; leaving the
\* last part leaves the buffer empty and the size 0.
C5_Flush ==
    /\ (pc = "loop" /\ pc' = "split") =>
          /\ SizeOf(entries[idx].path) > chunk_size
          /\ IF buffer # <<>>
             THEN emitted' = Append(emitted, [index |-> chunk_index, payload |-> buffer])
             ELSE emitted' = emitted
    /\ (pc = "split" /\ pc' = "loop") =>
          /\ emitted[Len(emitted)].payload[1].hi = SizeOf(entries[idx].path)
          /\ buffer' = <<>> /\ used_size' = 0

\* C5: for an entry larger than the capacity, (1) the records buffered before
\* it are emitted as one chunk before its first part, (2) its parts are
\* consecutive slices of it, part n in the chunk right after part n - 1,
\* numbered 0, 1, 2, ... and starting at the start of the file and, once the
\* entry is finished, ending at its end, (3) a part is alone in its chunk,
\* (4) while and right after the parts are written the buffer is empty and
\* the accumulated size is 0.
C5_ForcedSplit == [](C5_Parts) /\ [][C5_Flush]_vars

\* The parts of a file have just been written: the two records buffered
\* before it went out as one chunk right before part 0, and there are at
\* least three parts.
C5_Witness ==
    /\ pc = "loop" /\ idx > 1
    /\ SizeOf(entries[idx - 1].path) > chunk_size
    /\ \E k \in 2..Len(emitted) :
          /\ emitted[k].payload[1].split /\ emitted[k].payload[1].part = 0
          /\ Len(emitted[k - 1].payload) = 2
          /\ Len(emitted) >= k + 2
    /\ emitted[Len(emitted)].payload[1].path = entries[idx - 1].path

\* C6: in token mode, a finished file of T tokens with 1 <= C < T has
\* ceil(T / C) parts; every part but the last has C tokens, the last has
\* T - C * (ceil(T / C) - 1), between 1 and C; the tokens of the parts, in
\* order, are the tokens of the file.
C6_TokenParts ==
    token_mode =>
       \A f \in Processed :
          LET T == Len(split_whitespace(ContentOf(f)))
              C == chunk_size
              n == (T + C - 1) \div C
              rs == RecordsOf(f)
              toks(i) == split_whitespace(rs[i].rec.body)
          IN (1 <= C /\ C < T) =>
                /\ Len(rs) = n
                /\ \A i \in 1..Len(rs) : rs[i].rec.split
                /\ \A i \in 1..(Len(rs) - 1) : Len(toks(i)) = C
                /\ Len(toks(n)) = T - C * (n - 1)
                /\ Len(toks(n)) >= 1 /\ Len(toks(n)) <= C
                /\ Concat([i \in 1..Len(rs) |-> toks(i)]) = split_whitespace(ContentOf(f))

\* A file of three tokens has been split with capacity 2: parts of 2 and 1.
C6_Witness ==
    /\ token_mode /\ chunk_size = 2
    /\ \E f \in Processed :
          /\ Len(split_whitespace(ContentOf(f))) = 3
          /\ Len(RecordsOf(f)) = 2

\* The records in the emitted chunks and, while write_chunks runs, in the
\* buffer (the final flush hands the buffer to the sink without clearing it).
BufferedAndEmitted ==
    (IF pc = "done" THEN <<>> ELSE buffer) \o [i \in 1..Len(AllRecords) |-> AllRecords[i].rec]

\* C7: a file whose size is exactly the capacity is never split: once
\* processed it is one whole record (plain header), in the buffer or in one
\* chunk; every part belongs to a file strictly larger than the capacity.
C7_ExactFitNotSplit ==
    LET B == BufferedAndEmitted
    IN /\ \A i \in 1..Len(B) : B[i].split => SizeOf(B[i].path) > chunk_size
       /\ \A f \in Processed :
             SizeOf(f) = chunk_size =>
                /\ Cardinality({i \in 1..Len(B) : B[i].path = f}) = 1
                /\ \A i \in 1..Len(B) :
                      B[i].path = f => ~B[i].split /\ B[i].body = ContentOf(f)

\* A file of exactly the capacity (at least 1) went out whole, in a chunk
\* after the one that held the buffer before it.
C7_Witness ==
    /\ chunk_size >= 1
    /\ \E k \in 2..Len(emitted) :
          /\ SizeOf(emitted[k].payload[1].path) = chunk_size
          /\ ~emitted[k].payload[1].split
          /\ ~emitted[k - 1].payload[1].split

\* C8: every chunk handed to the sink holds at least one record, every part
\* holds at least one token or byte of its file, and a run over no entries
\* emits nothing.
C8_NoEmptyChunk ==
    /\ \A k \in 1..Len(emitted) :
          /\ Len(emitted[k].payload) >= 1
          /\ \A p \in 1..Len(emitted[k].payload) :
                LET r == emitted[k].payload[p]
                IN r.split => r.hi > r.lo /\ r.body # <<>>
    /\ files = <<>> => emitted = <<>>

\* The scores of the rules whose pattern the path contains.
MatchingScores(path, rules) ==
    {rules[i].score : i \in {j \in 1..Len(rules) : Contains(path, rules[j].pattern)}}

SetMax(S) == CHOOSE m \in S : \A x \in S : x <= m

MaxMatchingScore(path, rules) ==
    IF MatchingScores(path, rules) = {} THEN 0 ELSE SetMax(MatchingScores(path, rules))

Reorderings(s) ==
    {[i \in 1..Len(s) |-> s[p[i]]] : p \in InjSeqs(1..Len(s), Len(s))}

\* C9: get_file_priority(path, rules) is the largest score among the rules
\* matching path, 0 if none matches, for the rule list in any order; it is
\* the priority serialize_repo gives an entry when there is no version
\* history.
C9_MaxOfMatchingRules ==
    /\ \A path \in PathSet, rs \in Reorderings(priority_rules) :
          get_file_priority(path, rs) = MaxMatchingScore(path, priority_rules)
    /\ (pc # "start" /\ ~git_times.some) =>
          \A i \in 1..Len(entries) :
             entries[i].priority = MaxMatchingScore(entries[i].path, priority_rules)

\* The entries were scored with two rules of which the first has the higher
\* score: one entry matches both, another matches none.
C9_Witness ==
    /\ pc # "start" /\ ~git_times.some
    /\ Len(priority_rules) = 2
    /\ priority_rules[1].score > priority_rules[2].score
    /\ \E i \in 1..Len(entries) :
          /\ Cardinality(MatchingScores(entries[i].path, priority_rules)) = 2
          /\ entries[i].priority = priority_rules[1].score
    /\ \E i \in 1..Len(entries) :
          /\ MatchingScores(entries[i].path, priority_rules) = {}
          /\ entries[i].priority = 0

\* C10: with the rules [^low/ 10, ^high/ 999], no version history, byte mode,
\* low/a.txt within the capacity and high/b.txt above it, after a run in
\* either discovery order low/a.txt is in a chunk of smaller index than every
\* part of high/b.txt.
C10_LowBeforeHigh ==
    (/\ pc = "done"
     /\ priority_rules = <<R_low, R_high>>
     /\ ~git_times.some
     /\ ~token_mode
     /\ FilePaths = {P_low, P_high}
     /\ Len(ContentOf(P_low)) <= chunk_size
     /\ Len(ContentOf(P_high)) > chunk_size)
       => LET lows == RecordsOf(P_low)
              highs == RecordsOf(P_high)
          IN /\ lows # <<>>
             /\ highs # <<>>
             /\ \A i \in 1..Len(lows), j \in 1..Len(highs) :
                   lows[i].index < highs[j].index

\* The boost scales C11 is checked for; serialize_repo passes 50.
MaxBoosts == {0, 1, 7, 50}

\* round(a / b) for a >= 0, b > 0: the integer nearest to a / b, the upper
\* one of two equally near.
Nearest(a, b) == CHOOSE k \in 0..a : 2 * k * b <= 2 * a + b /\ 2 * (k + 1) * b > 2 * a + b

EntriesUnder(g) ==
    LET scored == [i \in 1..Len(files) |->
                     [path |-> files[i].path, content |-> files[i].content,
                      priority |-> PriorityWith(files[i].path,
                                                [git_times EXCEPT !.val = g])]]
    IN sort_by_key(scored, [i \in 1..Len(scored) |-> scored[i].priority])

\* The paths of the emitted records in emission order, the parts of one file
\* counted once.
PathsEmitted ==
    LET R == AllRecords
        keep == {i \in 1..Len(R) : i = 1 \/ R[i - 1].rec.path # R[i].rec.path}
    IN [k \in 1..Cardinality(keep) |->
           R[CHOOSE i \in keep : Cardinality({j \in keep : j < i}) = k - 1].rec.path]

\* C12: the output of a finished run is the output of every run over the
\* same discovered files, rules, commit-time map, capacity and mode: the
\* files are emitted in the order the entries take under any iteration order
\* of the same map (a run differs from another over the same inputs in that
\* order alone); and files of equal priority are emitted in discovery order.
C12_Reproducible ==
    pc = "done" =>
       /\ \A g \in Reorderings(git_times.val) :
             PathsEmitted = [i \in 1..Len(files) |-> EntriesUnder(g)[i].path]
       /\ \A i, j \in 1..Len(files) :
             (i < j /\ FilePriority(files[i].path) = FilePriority(files[j].path))
                => \A x \in 1..Len(AllRecords), y \in 1..Len(AllRecords) :
                      (/\ AllRecords[x].rec.path = files[i].path
                       /\ AllRecords[y].rec.path = files[j].path)
                         => EmittedBefore(AllRecords[x], AllRecords[y])

\* The records of the emitted chunks, in order: what a stream sink was given.
Delivered == Concat([k \in 1..Len(emitted) |-> emitted[k].payload])

\* The sink holds chunk k as it was written: the stream holds its records at
\* their place, the directory holds its content under its file name.
HeldAsWritten(k) ==
    IF is_stream
    THEN Len(stdout) >= Len(Delivered)
         /\ SubSeq(stdout, 1, Len(Delivered)) = Delivered
    ELSE LET name == FilePath(emitted[k].payload, emitted[k].index)
         IN name \in DOMAIN out_files /\ out_files[name] = emitted[k].payload

\* What C13 says of a state after the failure, chunk_index being the k of
\* the failed write: exactly the chunks 0..k-1 were delivered, and the sink
\* holds each as written.
C13_Failed ==
    pc = "failed" =>
       /\ Len(emitted) = chunk_index
       /\ \A k \in 1..Len(emitted) : emitted[k].index = k - 1
       /\ \A k \in 1..Len(emitted) : HeldAsWritten(k)

\* What C13 says of every step: nothing follows a failure, and the failing
\* step delivers nothing and moves to no other entry.
C13_Step ==
    /\ pc # "failed"
    /\ pc' = "failed" =>
          emitted' = emitted /\ idx' = idx /\ chunk_index' = chunk_index

\* C13: when the sink fails on chunk k, the run stops there: chunk k is not
\* written again, no chunk of greater index is handed to the sink, no later
\* entry is processed, and the chunks 0..k-1 are left as they were written.
C13_SinkFailure == [](C13_Failed) /\ [][C13_Step]_vars

\* C14: in a finished stream-mode run over very_important/one.txt and
\* less_important/two.txt with the rules [^very_important/ 100,
\* ^less_important/ 10], the record of very_important/one.txt is in the
\* streamed output before the record of less_important/two.txt, in either
\* discovery order.
C14_HigherScoreFirst ==
    (/\ pc = "done"
     /\ is_stream
     /\ priority_rules = <<R_very, R_less>>
     /\ FilePaths = {P_very, P_less})
       => /\ \E i \in 1..Len(stdout) : stdout[i].path = P_very
          /\ \E j \in 1..Len(stdout) : stdout[j].path = P_less
          /\ \A i, j \in 1..Len(stdout) :
                (stdout[i].path = P_very /\ stdout[j].path = P_less) => i < j

\* What of a chunk sequence is its packing: for every chunk its records, and
\* for every record its file, whether it is a part, which part, and the
\* range of sizes it covers.
Packing(chunks) ==
    [k \in 1..Len(chunks) |->
        [p \in 1..Len(chunks[k]) |->
            [path |-> chunks[k][p].path, split |-> chunks[k][p].split,
             part |-> chunks[k][p].part, lo |-> chunks[k][p].lo,
             hi |-> chunks[k][p].hi]]]

\* The parts of a file of size n > cap >= 1, each a chunk of its own.
PartsOf(path, n, cap) ==
    [q \in 1..((n + cap - 1) \div cap) |->
        <<[path |-> path, split |-> TRUE, part |-> q - 1,
           lo |-> (q - 1) * cap, hi |-> Min(q * cap, n)]>>]

\* The packing of the entries from the i-th on as a function of their paths
\* and sizes alone, sz[j] being the size of the j-th entry; buf holds the
\* records not yet flushed and used their accumulated size.
RECURSIVE PackFrom(_, _, _, _, _, _)
PackFrom(ps, sz, cap, i, buf, used) ==
    LET flushed == IF buf # <<>> THEN <<buf>> ELSE <<>>
    IN IF i > Len(ps) THEN flushed
       ELSE IF sz[i] > cap
            THEN flushed \o PartsOf(ps[i], sz[i], cap)
                         \o PackFrom(ps, sz, cap, i + 1, <<>>, 0)
            ELSE LET add == sz[i] + 10 + Len(ps[i])
                     whole == [path |-> ps[i], split |-> FALSE, part |-> 0,
                               lo |-> 0, hi |-> sz[i]]
                 IN IF used + add > cap /\ buf # <<>>
                    THEN <<buf>> \o PackFrom(ps, sz, cap, i + 1, <<whole>>, add)
                    ELSE PackFrom(ps, sz, cap, i + 1, Append(buf, whole), used + add)

\* s is a prefix of t.
IsPrefix(s, t) == Len(s) <= Len(t) /\ SubSeq(t, 1, Len(s)) = s

\* C15: the packing of a run (how many chunks, which entries in which chunk,
\* where the buffer is flushed, how many parts of which ranges an oversized
\* file has) is one function of the capacity and of the paths and sizes of
\* the ordered entries, whichever mode measured the sizes: a token-mode run
\* and a byte-mode run over the same paths and size sequence pack alike.
C15_SamePacking ==
    (pc \notin {"start"} /\ chunk_size >= 1) =>
       LET ps == [i \in 1..Len(entries) |-> entries[i].path]
           sz == [i \in 1..Len(entries) |-> SizeOf(entries[i].path)]
           expected == PackFrom(ps, sz, chunk_size, 1, <<>>, 0)
           got == Packing([k \in 1..Len(emitted) |-> emitted[k].payload])
       IN /\ IsPrefix(got, expected)
          /\ pc = "done" => got = expected

\* A finished token-mode run that flushed a buffer before a split file and
\* wrote two parts of it, while the model also has the byte-mode run over
\* the same paths, rules and capacity in which every file has as many bytes
\* as it has tokens here.
C15_Witness ==
    /\ pc = "done" /\ token_mode /\ chunk_size >= 1
    /\ \E k \in 2..(Len(emitted) - 1) :
          /\ ~emitted[k - 1].payload[1].split
          /\ emitted[k].payload[1].split
          /\ emitted[k + 1].payload[1].split
    /\ \E inp \in OrdInputs :
          /\ ~inp.token_mode
          /\ inp.rules = priority_rules /\ inp.max_size = max_size
          /\ Len(inp.files) = Len(files)
          /\ \A i \in 1..Len(files) :
                /\ inp.files[i].path = files[i].path
                /\ Len(inp.files[i].content) = SizeOf(files[i].path)

\* The file name write_single_chunk derived for the k-th emitted chunk.
NameOf(k) == FilePath(emitted[k].payload, emitted[k].index)

\* C16: with the file strategy no two chunks of a run derive the same file
\* name, so that no chunk overwrites another; after the run the directory
\* holds one file per emitted chunk, the `:part <n>` chunks included, each
\* with the content of its chunk.
C16_OwnFileName ==
    ~is_stream =>
       /\ \A j, k \in 1..Len(emitted) : j # k => NameOf(j) # NameOf(k)
       /\ pc = "done" =>
             /\ Cardinality(DOMAIN out_files) = Len(emitted)
             /\ \A k \in 1..Len(emitted) :
                   NameOf(k) \in DOMAIN out_files
                   /\ out_files[NameOf(k)] = emitted[k].payload

\* The size of the entry write_chunks is at, in the active mode.
EntrySize == IF token_mode THEN file_tokens ELSE file_len

\* What C17 asks of every round of a forced-split loop: it leaves less of
\* the entry to write than there was, so that the loop ends after at most as
\* many rounds as the entry is large.
C17_Round ==
    (pc = "split" /\ pc' = "split") =>
       /\ start' <= EntrySize
       /\ EntrySize - start' < EntrySize - start

\* C17: write_chunks terminates for every entry sequence, mode and capacity
\* that reaches it: every round of a forced-split loop advances start
\* towards the size of the entry, so that the loop is left after finitely
\* many parts, and the for loop takes every entry once.
C17_Terminates ==
    [][C17_Round /\ (pc \in {"loop", "split"} /\ pc' = "loop" => idx' = idx + 1)]_vars

====
